---- MODULE Spec2Model ----
(***************************************************************************)
(* Model of src/src/AsyncCleanup.ts: the AsyncCleanup registry, the exit   *)
(* listeners it subscribes on the Node.js process object, and the          *)
(* asynchronous cleanup calls (exitAfterCleanup / killAfterCleanup).       *)
(*                                                                         *)
(* One action is one synchronous run of JavaScript on the event loop: a    *)
(* public call or an emitted process event runs up to the first `await`,   *)
(* and each continuation after an `await` is a separate action.            *)
(***************************************************************************)
EXTENDS Integers, Sequences, FiniteSets, TLC

\* ---------------------------------------------------------------- bounds
NumListeners == 2
MaxCalls == 2
MaxRuns == 1
MaxInstalls == 2
MaxCode == 0
MaxOps == 2

Listeners == 1..NumListeners
Codes == 0..MaxCode

\* ------------------------------------------------------ program constants
listenedSignals == <<"SIGBREAK", "SIGHUP", "SIGINT", "SIGTERM", "SIGUSR2">>

ListenedSignals == {listenedSignals[i] : i \in 1..Len(listenedSignals)}

ExitSignal == ListenedSignals \cup {"SIGKILL", "SIGQUIT", "SIGSTOP"}

Events == {"beforeExit", "message", "uncaughtException"} \cup ListenedSignals

\* the signals the model draws as inputs: those that arrive from outside and
\* those the program passes to killAfterCleanup
FiredSignals == {"SIGINT"}

KillSignals == {"SIGINT", "SIGKILL"}

\* payloads of the 'message' event the model draws
Messages == {"shutdown", "other"}

\* what one invocation of a listener does: returns nothing, throws
\* synchronously, or returns a Promise (settled later)
Behaviours == {"void", "throws", "async"}

VARIABLES
    cleanupListeners,  \* this.cleanupListeners: [defined, items] (a Set in insertion order)
    handlers,          \* the process object's listener table: event -> Seq of function identities
    calls,             \* every exitAfterCleanup/killAfterCleanup call made so far: what
                       \* was called, the listeners it detached, those it invoked and
                       \* what each gave, what the removes made by its listeners
                       \* returned, and where the call stands
    raised,            \* signals sent to this process by process.kill, not yet delivered
    proc,              \* "running", or how the process ended
    removers,          \* listeners for which add has returned a remover
    owed               \* history: registrations of a listener not yet removed or invoked

vars == <<cleanupListeners, handlers, calls, raised, proc, removers, owed>>

\* ------------------------------------------------------------ Set helpers
RECURSIVE SeqCount(_, _)
SeqCount(s, x) ==
    IF s = <<>> THEN 0
    ELSE (IF Head(s) = x THEN 1 ELSE 0) + SeqCount(Tail(s), x)

SeqHas(s, x) == \E i \in 1..Len(s) : s[i] = x

\* Set.prototype.add: appends unless already present
SetAdd(s, x) == IF SeqHas(s, x) THEN s ELSE Append(s, x)

\* Set.prototype.delete: removes the element; the result says whether it was there
SetDelete(s, x) == SelectSeq(s, LAMBDA y : y # x)

Undefined == [defined |-> FALSE, items |-> <<>>]

\* ------------------------------------------- process listener table (Node)
\* the function most recently subscribed for an event (0: none); function
\* identities are numbered in the order the functions are created
LastId(s) == IF s = <<>> THEN 0 ELSE s[Len(s)]

\* fn.bind(this): a new function object, distinct from every function subscribed
Max(a, b) == IF a >= b THEN a ELSE b

Bind(tbl) ==
    1 + Max(Max(Max(LastId(tbl["beforeExit"]), LastId(tbl["message"])),
                Max(LastId(tbl["uncaughtException"]), LastId(tbl["SIGBREAK"]))),
            Max(Max(LastId(tbl["SIGHUP"]), LastId(tbl["SIGINT"])),
                Max(LastId(tbl["SIGTERM"]), LastId(tbl["SIGUSR2"]))))

\* process.on(ev, fn)
On(tbl, ev, fn) == [tbl EXCEPT ![ev] = Append(@, fn)]

\* process.removeListener(ev, fn): drops the most recently added instance of fn, if any
RemoveListener(tbl, ev, fn) ==
    LET s == tbl[ev]
        idx == {i \in 1..Len(s) : s[i] = fn}
    IN IF idx = {} THEN tbl
       ELSE LET k == CHOOSE i \in idx : \A j \in idx : j <= i
            IN [tbl EXCEPT ![ev] = SubSeq(s, 1, k - 1) \o SubSeq(s, k + 1, Len(s))]

RECURSIVE OnSignals(_, _)
OnSignals(tbl, i) ==
    IF i > Len(listenedSignals) THEN tbl
    ELSE OnSignals(On(tbl, listenedSignals[i], Bind(tbl)), i + 1)

installExitListeners(tbl) ==
    LET t1 == On(tbl, "beforeExit", Bind(tbl))
        t2 == On(t1, "message", Bind(t1))
        t3 == On(t2, "uncaughtException", Bind(t2))
    IN OnSignals(t3, 1)

RECURSIVE RemoveSignals(_, _)
RemoveSignals(tbl, i) ==
    IF i > Len(listenedSignals) THEN tbl
    ELSE RemoveSignals(RemoveListener(tbl, listenedSignals[i], Bind(tbl)), i + 1)

uninstallExitListeners(tbl) ==
    LET t1 == RemoveListener(tbl, "beforeExit", Bind(tbl))
        t2 == RemoveListener(t1, "message", Bind(t1))
        t3 == RemoveListener(t2, "uncaughtException", Bind(t2))
    IN RemoveSignals(t3, 1)

\* --------------------------------------------------------------- registry
\* The operators below work on the record S = [cl, tbl, calls, owed]:
\* this.cleanupListeners, the process listener table, the calls made, and
\* the history counter.

\* an array push in place of Set.prototype.add
AddToSetDup(items, listener) == Append(items, listener)

\* an add that moves a listener already present to the end
AddToSetMove(items, listener) == Append(SetDelete(items, listener), listener)

\* Set.prototype.add on this.cleanupListeners (line 48)
AddToSet(items, listener) == SetAdd(items, listener)

\* add(listener), lines 42-50
add(S, listener) ==
    LET fresh == ~S.cl.defined
        tbl1 == IF fresh THEN installExitListeners(S.tbl) ELSE S.tbl
        items0 == IF fresh THEN <<>> ELSE S.cl.items
    IN [S EXCEPT !.tbl = tbl1,
                 !.cl = [defined |-> TRUE, items |-> AddToSet(items0, listener)],
                 !.owed = [@ EXCEPT ![listener] = 1]]

\* a remove that reports success whenever the set exists
WasRegisteredAlways(items, listener) == TRUE

\* the result of Set.prototype.delete (line 55)
WasRegistered(items, listener) == SeqHas(items, listener)

\* remove(listener) without the size check of lines 56-59
removeKeepEmpty(S, listener) ==
    IF ~S.cl.defined THEN [S |-> S, ret |-> FALSE]
    ELSE [S |-> [S EXCEPT !.cl = [defined |-> TRUE, items |-> SetDelete(S.cl.items, listener)],
                          !.owed = [@ EXCEPT ![listener] = 0]],
          ret |-> WasRegistered(S.cl.items, listener)]

\* remove(listener), lines 53-61: the new state and the value returned
remove(S, listener) ==
    IF ~S.cl.defined THEN [S |-> S, ret |-> FALSE]
    ELSE LET wasRegistered == WasRegistered(S.cl.items, listener)
             items1 == SetDelete(S.cl.items, listener)
             owed1 == [S.owed EXCEPT ![listener] = 0]
         IN IF Len(items1) = 0
            THEN [S |-> [S EXCEPT !.tbl = uninstallExitListeners(S.tbl),
                                  !.cl = Undefined,
                                  !.owed = owed1],
                  ret |-> wasRegistered]
            ELSE [S |-> [S EXCEPT !.cl = [defined |-> TRUE, items |-> items1],
                                  !.owed = owed1],
                  ret |-> wasRegistered]

\* ------------------------------------------------------- cleanup execution
\* the for-loop of lines 75-84 with a try/catch around the whole loop
\* instead of around each invocation
RECURSIVE CallListenersNoCatch(_, _, _)
CallListenersNoCatch(listeners, beh, i) ==
    IF i > Len(listeners) THEN [invoked |-> <<>>, results |-> <<>>, threw |-> FALSE]
    ELSE LET b == beh[listeners[i]]
         IN IF b = "throws"
            THEN [invoked |-> <<listeners[i]>>, results |-> <<"threw">>, threw |-> TRUE]
            ELSE LET rest == CallListenersNoCatch(listeners, beh, i + 1)
                 IN [invoked |-> <<listeners[i]>> \o rest.invoked,
                     results |-> <<IF b = "async" THEN "pending" ELSE "void">> \o rest.results,
                     threw |-> rest.threw]

\* the loop with `await listener()` in it: the routine suspends at the first
\* listener that returns a Promise
RECURSIVE CallListenersAwaitEach(_, _, _)
CallListenersAwaitEach(listeners, beh, i) ==
    IF i > Len(listeners) THEN [invoked |-> <<>>, results |-> <<>>, threw |-> FALSE]
    ELSE LET b == beh[listeners[i]]
         IN IF b = "async"
            THEN [invoked |-> <<listeners[i]>>, results |-> <<"pending">>, threw |-> FALSE]
            ELSE LET rest == CallListenersAwaitEach(listeners, beh, i + 1)
                 IN [invoked |-> <<listeners[i]>> \o rest.invoked,
                     results |-> <<IF b = "throws" THEN "threw" ELSE "void">> \o rest.results,
                     threw |-> rest.threw]

\* the for-loop of lines 75-84: invokes listeners[i..]; invoked[k] is the
\* k-th listener it invoked and results[k] what that invocation gave
\* ("void", "threw" when it threw and the catch logged it, "pending" when
\* it returned a Promise); threw says whether an exception left the loop
RECURSIVE CallListeners(_, _, _)
CallListeners(listeners, beh, i) ==
    IF i > Len(listeners) THEN [invoked |-> <<>>, results |-> <<>>, threw |-> FALSE]
    ELSE LET b == beh[listeners[i]]
             r == IF b = "throws" THEN "threw"
                  ELSE IF b = "async" THEN "pending" ELSE "void"
             rest == CallListeners(listeners, beh, i + 1)
         IN [invoked |-> <<listeners[i]>> \o rest.invoked,
             results |-> <<r>> \o rest.results,
             threw |-> rest.threw]

\* this.remove.bind(this), without the listener: the call removes undefined
RemoverUnbound(S, listener) == [S |-> S, ret |-> FALSE]

\* a call of the function add(listener) returned,
\* this.remove.bind(this, listener) (line 49): the new state and the value returned
Remover(S, listener) == remove(S, listener)

\* the guard of line 64 left out
UninitializedNever(cl) == FALSE

\* `if (!this.cleanupListeners) return` (line 64)
Uninitialized(cl) == ~cl.defined

\* `delete this.cleanupListeners` (line 71) left out
DetachKeep(cl) == cl

\* `delete this.cleanupListeners` (line 71)
Detach(cl) == Undefined

\* owed after the invocations recorded in results of the listeners in listeners
RECURSIVE Consume(_, _, _)
Consume(ow, listeners, n) ==
    IF n = 0 THEN ow
    ELSE Consume([ow EXCEPT ![listeners[n]] = @ - 1], listeners, n - 1)

\* executeCleanupListeners up to its first await (lines 63-87), run by a
\* call of the given kind; the call is appended to S.calls
executeCleanupListeners(S, kind, code, signal, beh) ==
    IF Uninitialized(S.cl)
    THEN [S EXCEPT !.calls = Append(@, [kind |-> kind, code |-> code, signal |-> signal,
                                        ran |-> FALSE, detached |-> <<>>, invoked |-> <<>>,
                                        results |-> <<>>, removals |-> {},
                                        phase |-> "cleaned", awaited |-> 0, errors |-> 0,
                                        unsettled |-> 0])]
    ELSE LET tbl1 == uninstallExitListeners(S.tbl)
             listeners == S.cl.items
             r == CallListeners(listeners, beh, 1)
         IN [S EXCEPT !.tbl = tbl1,
                      !.cl = Detach(S.cl),
                      !.owed = Consume(@, listeners, Len(r.results)),
                      !.calls = Append(@, [kind |-> kind, code |-> code, signal |-> signal,
                                           ran |-> TRUE, detached |-> listeners,
                                           invoked |-> r.invoked,
                                           results |-> r.results, removals |-> {},
                                           phase |-> IF r.threw THEN "failed" ELSE "settling",
                                           awaited |-> 0, errors |-> 0, unsettled |-> 0])]

\* exitAfterCleanup(code) up to its await (lines 99-100)
exitAfterCleanup(S, code, beh) == executeCleanupListeners(S, "exit", code, "none", beh)

\* killAfterCleanup(signal) up to its await (lines 105-106)
killAfterCleanup(S, signal, beh) == executeCleanupListeners(S, "kill", 0, signal, beh)

\* ------------------------------------- listeners that call add and remove
\* a call of add or remove that a listener makes while it runs
Op == [op : {"add", "remove"}, l : Listeners]

\* the calls one listener makes during one invocation, in order
OpSeqs == UNION {[1..n -> Op] : n \in 1..MaxOps}

\* The loop state R: the registry state S, the Set the loop iterates (the
\* members it held at the detach, detached, and those it holds now, live),
\* whether this.cleanupListeners still refers to that Set (aliased), the
\* listeners invoked so far and what each gave, the listeners added since
\* the detach, and what each remove of a detached, not yet invoked listener
\* returned.

\* the listener being invoked makes the calls ops
RECURSIVE RunOps(_, _)
RunOps(R, ops) ==
    IF ops = <<>> THEN R
    ELSE LET o == Head(ops)
             r == IF o.op = "add" THEN [S |-> add(R.S, o.l), ret |-> FALSE]
                  ELSE remove(R.S, o.l)
             pending == SeqHas(R.detached, o.l) /\ ~SeqHas(R.invoked, o.l)
             noted == IF o.op = "remove" /\ pending
                      THEN {[readded |-> o.l \in R.readded, ret |-> r.ret]}
                      ELSE {}
         IN RunOps([R EXCEPT !.S = r.S,
                             !.live = IF R.aliased THEN r.S.cl.items ELSE @,
                             !.aliased = @ /\ r.S.cl.defined,
                             !.readded = IF o.op = "add" THEN @ \cup {o.l} ELSE @,
                             !.removals = @ \cup noted],
                   Tail(ops))

\* the for-loop of lines 75-84 over the Set R.live, when the listener actor
\* makes the calls ops while it runs: a Set iterator visits the members the
\* Set holds when it gets to them
RECURSIVE CallListenersFx(_, _, _, _)
CallListenersFx(R, beh, actor, ops) ==
    LET rest == SelectSeq(R.live, LAMBDA x : ~SeqHas(R.invoked, x))
    IN IF rest = <<>> THEN R
       ELSE LET listener == Head(rest)
                R1 == [R EXCEPT !.invoked = Append(@, listener)]
                R2 == IF listener = actor THEN RunOps(R1, ops) ELSE R1
                r == CallListeners(<<listener>>, beh, 1)
            IN CallListenersFx([R2 EXCEPT !.results = @ \o r.results], beh, actor, ops)

\* executeCleanupListeners up to its first await (lines 63-87) when the
\* listener actor makes the calls ops while it runs
executeCleanupListenersFx(S, kind, code, signal, beh, actor, ops) ==
    IF Uninitialized(S.cl) THEN executeCleanupListeners(S, kind, code, signal, beh)
    ELSE LET tbl1 == uninstallExitListeners(S.tbl)
             listeners == S.cl.items
             cl1 == Detach(S.cl)
             R == CallListenersFx([S |-> [S EXCEPT !.tbl = tbl1,
                                                   !.cl = cl1,
                                                   !.owed = Consume(@, listeners, Len(listeners))],
                                   detached |-> listeners,
                                   live |-> listeners,
                                   aliased |-> cl1.defined,
                                   invoked |-> <<>>,
                                   results |-> <<>>,
                                   readded |-> {},
                                   removals |-> {}],
                                  beh, actor, ops)
         IN [R.S EXCEPT !.calls = Append(@, [kind |-> kind, code |-> code, signal |-> signal,
                                             ran |-> TRUE, detached |-> listeners,
                                             invoked |-> R.invoked,
                                             results |-> R.results, removals |-> R.removals,
                                             phase |-> "settling",
                                             awaited |-> 0, errors |-> 0, unsettled |-> 0])]

\* the listeners the calls ops add
Added(ops) == {ops[j].l : j \in {k \in 1..Len(ops) : ops[k].op = "add"}}

\* ------------------------------------------------------- trigger handlers
beforeExitListener(S, code, beh) == exitAfterCleanup(S, code, beh)

\* a handler that passes on the default exit code
uncaughtExceptionListenerZero(S, beh) == exitAfterCleanup(S, 0, beh)

uncaughtExceptionListener(S, beh) == exitAfterCleanup(S, 1, beh)

signalListener(S, signal, beh) == killAfterCleanup(S, signal, beh)

pm2ClusterShutdownListener(S, message, beh) ==
    IF message # "shutdown" THEN S ELSE killAfterCleanup(S, "SIGTERM", beh)

\* the handler this system subscribes for event ev, called with the event's argument
Handler(S, ev, code, message, beh) ==
    IF ev = "beforeExit" THEN beforeExitListener(S, code, beh)
    ELSE IF ev = "uncaughtException" THEN uncaughtExceptionListener(S, beh)
    ELSE IF ev = "message" THEN pm2ClusterShutdownListener(S, message, beh)
    ELSE signalListener(S, ev, beh)

\* process.emit(ev, arg): calls, in order, each of the n functions that were
\* subscribed for ev when the event was emitted
RECURSIVE Emit(_, _, _, _, _, _)
Emit(S, n, ev, code, message, beh) ==
    IF n = 0 THEN S
    ELSE Emit(Handler(S, ev, code, message, beh), n - 1, ev, code, message, beh)

\* ---------------------------------------------------------------- awaits
\* Promise.all in place of Promise.allSettled: settles on the first rejection
PromiseAll(results) ==
    \/ \A j \in 1..Len(results) : results[j] # "pending"
    \/ \E j \in 1..Len(results) : results[j] = "rejected"

\* Promise.allSettled(promises) has settled (line 87)
AllSettled(results) == \A j \in 1..Len(results) : results[j] # "pending"

\* Promise.all in place of Promise.allSettled: rejects when a listener rejected
CompletionOfAll(results) ==
    IF \E j \in 1..Len(results) : results[j] = "rejected" THEN "failed" ELSE "cleaned"

\* how executeCleanupListeners' own promise settles once the loop of lines
\* 88-95 has logged the rejections: it is always fulfilled
Completion(results) == "cleaned"

\* the caller resumes without awaiting executeCleanupListeners
ResumableNoAwait(call) == call.phase \in {"settling", "cleaned"}

\* `await this.executeCleanupListeners()` (lines 100, 106) resumes once the
\* promise is fulfilled
Resumable(call) == call.phase = "cleaned"

\* ----------------------------------------------------------------- state
\* the behaviours listeners can show at a cleanup that starts now: one choice
\* for each registered listener (the others are not invoked)
BehavioursNow ==
    {beh \in [Listeners -> Behaviours] :
        \A l \in Listeners :
            (~cleanupListeners.defined \/ ~SeqHas(cleanupListeners.items, l)) => beh[l] = "void"}

Registered(l) == cleanupListeners.defined /\ SeqHas(cleanupListeners.items, l)

Here == [cl |-> cleanupListeners, tbl |-> handlers, calls |-> calls, owed |-> owed]

\* the variables take the values of the record S
Becomes(S) ==
    /\ cleanupListeners' = S.cl
    /\ handlers' = S.tbl
    /\ calls' = S.calls
    /\ owed' = S.owed

Running == proc = "running"

\* the Promises among results, and those of them not yet settled
Promises(results) == {j \in 1..Len(results) : results[j] \in {"pending", "resolved", "rejected"}}

Pending(results) == {j \in 1..Len(results) : results[j] = "pending"}

\* the invocations that ended in a console.error (lines 82 and 90)
Errors(results) == {j \in 1..Len(results) : results[j] \in {"threw", "rejected"}}

\* listener Promises, of any call, that have not settled
RECURSIVE UnsettledFrom(_)
UnsettledFrom(cs) ==
    IF cs = <<>> THEN 0 ELSE Cardinality(Pending(Head(cs).results)) + UnsettledFrom(Tail(cs))

Unsettled == UnsettledFrom(calls)

\* cleanup executions that invoked listeners and have not reached their terminal action
Runs == Cardinality({i \in 1..Len(calls) : calls[i].ran /\ calls[i].phase # "done"})

\* a call made now stays within the bound on concurrent cleanup executions
CanStart == ~cleanupListeners.defined \/ Runs < MaxRuns


Init ==
    /\ cleanupListeners = Undefined
    /\ handlers = [ev \in Events |-> <<>>]
    /\ calls = <<>>
    /\ raised = {}
    /\ proc = "running"
    /\ removers = {}
    /\ owed = [l \in Listeners |-> 0]

\* --------------------------------------------------------------- actions
\* addCleanupListener(listener)
Add(listener) ==
    /\ Running
    /\ cleanupListeners.defined \/ Len(handlers["beforeExit"]) < MaxInstalls
    /\ Becomes(add(Here, listener))
    /\ removers' = removers \cup {listener}
    /\ UNCHANGED <<raised, proc>>

\* removeCleanupListener(listener)
Remove(listener) ==
    /\ Running
    /\ Becomes(remove(Here, listener).S)
    /\ UNCHANGED <<raised, proc, removers>>

\* a call of a remover returned by add(listener): this.remove.bind(this, listener)
CallRemover(listener) ==
    /\ Running
    /\ listener \in removers
    /\ Becomes(Remover(Here, listener).S)
    /\ UNCHANGED <<raised, proc, removers>>

\* the program calls exitAfterCleanup(code)
ExitAfterCleanup(code, beh) ==
    /\ Running
    /\ Len(calls) < MaxCalls
    /\ CanStart
    /\ Becomes(exitAfterCleanup(Here, code, beh))
    /\ UNCHANGED <<raised, proc, removers>>

\* the program calls killAfterCleanup(signal)
KillAfterCleanup(signal, beh) ==
    /\ Running
    /\ Len(calls) < MaxCalls
    /\ CanStart
    /\ Becomes(killAfterCleanup(Here, signal, beh))
    /\ UNCHANGED <<raised, proc, removers>>

\* the process emits event ev, which has subscribers, with the given argument
Fire(ev, code, message, beh) ==
    /\ Running
    /\ Len(handlers[ev]) > 0
    /\ Len(calls) + Len(handlers[ev]) <= MaxCalls
    /\ CanStart
    /\ Becomes(Emit(Here, Len(handlers[ev]), ev, code, message, beh))
    /\ UNCHANGED <<raised, proc, removers>>

\* 'beforeExit': the event loop is empty
FireBeforeExit(code, beh) == Fire("beforeExit", code, "other", beh)

\* 'uncaughtException'
FireUncaughtException(beh) == Fire("uncaughtException", 0, "other", beh)

\* 'message': the parent process sent a message
FireMessage(message, beh) == Fire("message", 0, message, beh)

\* a signal arrives from outside
FireSignal(signal, beh) == Fire(signal, 0, "other", beh)

\* a signal or an uncaught exception arrives and nothing is subscribed for
\* it: the default disposition ends the process
Default(ev) ==
    /\ Running
    /\ ev \in ListenedSignals \cup {"uncaughtException"}
    /\ Len(handlers[ev]) = 0
    /\ proc' = "died"
    /\ UNCHANGED <<cleanupListeners, handlers, calls, raised, removers, owed>>

\* a signal this process sent to itself is delivered: its subscribers run,
\* or the default disposition applies
Deliver(signal, beh) ==
    /\ Running
    /\ signal \in raised
    /\ raised' = raised \ {signal}
    /\ IF signal \in ListenedSignals /\ Len(handlers[signal]) > 0
       THEN /\ Len(calls) + Len(handlers[signal]) <= MaxCalls
            /\ CanStart
            /\ Becomes(Emit(Here, Len(handlers[signal]), signal, 0, "other", beh))
            /\ UNCHANGED <<proc, removers>>
       ELSE /\ proc' = "died"
            /\ UNCHANGED <<cleanupListeners, handlers, calls, removers, owed>>

\* the Promise returned by the j-th listener of call i settles
Settle(i, j, outcome) ==
    /\ Running
    /\ i \in 1..Len(calls)
    /\ j \in 1..Len(calls[i].results)
    /\ calls[i].results[j] = "pending"
    /\ calls' = [calls EXCEPT ![i].results[j] = outcome]
    /\ UNCHANGED <<cleanupListeners, handlers, raised, proc, removers, owed>>

\* call i resumes after `await Promise.allSettled(promises)`, logs the
\* rejections and returns (lines 87-96)
Complete(i) ==
    /\ Running
    /\ i \in 1..Len(calls)
    /\ calls[i].phase = "settling"
    /\ AllSettled(calls[i].results)
    /\ calls' = [calls EXCEPT ![i].phase = Completion(calls[i].results)]
    /\ UNCHANGED <<cleanupListeners, handlers, raised, proc, removers, owed>>

\* call i resumes after `await this.executeCleanupListeners()` and performs
\* its terminal action: process.exit(code) (line 101) or
\* process.kill(process.pid, signal) (line 107). Of a finished call the
\* model keeps what was called and a summary: how many Promises it had
\* collected, how many errors it logged, and how many listener Promises (of
\* any call) were unsettled when the terminal action was performed.
Resume(i) ==
    /\ Running
    /\ i \in 1..Len(calls)
    /\ calls[i].phase # "done"
    /\ Resumable(calls[i])
    /\ calls' = [calls EXCEPT ![i] = [@ EXCEPT !.phase = "done",
                                               !.detached = <<>>,
                                               !.invoked = <<>>,
                                               !.results = <<>>,
                                               !.removals = {},
                                               !.awaited = Cardinality(Promises(calls[i].results)),
                                               !.errors = Cardinality(Errors(calls[i].results)),
                                               !.unsettled = Unsettled]]
    /\ IF calls[i].kind = "exit"
       THEN /\ proc' = "exited"
            /\ UNCHANGED raised
       ELSE /\ raised' = raised \cup {calls[i].signal}
            /\ UNCHANGED proc
    /\ UNCHANGED <<cleanupListeners, handlers, removers, owed>>

\* the program calls killAfterCleanup(signal) and the listener actor calls
\* add and remove (ops) while cleanup invokes it
KillAfterCleanupFx(signal, beh, actor, ops) ==
    /\ Running
    /\ Len(calls) < MaxCalls
    /\ CanStart
    /\ Registered(actor)
    /\ LET S == executeCleanupListenersFx(Here, "kill", 0, signal, beh, actor, ops)
       IN /\ Len(S.tbl["beforeExit"]) <= MaxInstalls
          /\ Becomes(S)
    /\ removers' = removers \cup Added(ops)
    /\ UNCHANGED <<raised, proc>>

Next ==
    \/ \E l \in Listeners : Add(l)
    \/ \E l \in Listeners : Remove(l)
    \/ \E l \in Listeners : CallRemover(l)
    \/ \E c \in Codes, beh \in BehavioursNow : ExitAfterCleanup(c, beh)
    \/ \E s \in KillSignals, beh \in BehavioursNow : KillAfterCleanup(s, beh)
    \/ \E c \in Codes, beh \in BehavioursNow : FireBeforeExit(c, beh)
    \/ \E beh \in BehavioursNow : FireUncaughtException(beh)
    \/ \E m \in Messages, beh \in BehavioursNow : FireMessage(m, beh)
    \/ \E s \in FiredSignals, beh \in BehavioursNow : FireSignal(s, beh)
    \/ \E ev \in FiredSignals \cup {"uncaughtException"} : Default(ev)
    \/ \E s \in raised, beh \in BehavioursNow : Deliver(s, beh)
    \/ \E i \in 1..Len(calls) : \E j \in 1..Len(calls[i].results), o \in {"resolved", "rejected"} :
          Settle(i, j, o)
    \/ \E i \in 1..Len(calls) : Complete(i)
    \/ \E i \in 1..Len(calls) : Resume(i)

Spec == Init /\ [][Next]_vars

\* the code's scheduling: a Promise the host settles is settled, and a
\* continuation whose awaited Promise is settled is run by the event loop
FairSpec ==
    /\ Spec
    /\ WF_vars(\E i \in 1..Len(calls) : \E j \in 1..Len(calls[i].results),
                                           o \in {"resolved", "rejected"} : Settle(i, j, o))
    /\ WF_vars(\E i \in 1..Len(calls) : Complete(i))
    /\ WF_vars(\E i \in 1..Len(calls) : Resume(i))

\* every registered listener behaves in the same way
UniformNow == {beh \in BehavioursNow : \A k, l \in Listeners : Registered(k) /\ Registered(l) => beh[k] = beh[l]}

\* the listeners a cleanup would invoke if the program started one now
InvokedNow ==
    IF Running /\ Len(calls) < MaxCalls /\ CanStart
    THEN {l \in Listeners : Registered(l)}
    ELSE {}

\* the program, with listeners that call add and remove while they run
NextFx ==
    \/ Next
    \/ \E actor \in InvokedNow : \E beh \in UniformNow, ops \in OpSeqs :
          KillAfterCleanupFx("SIGINT", beh, actor, ops)

SpecFx == Init /\ [][NextFx]_vars

\* ------------------------------------------------------------ properties
Active == cleanupListeners.defined /\ Len(cleanupListeners.items) > 0

Intercepting == \E ev \in Events : Len(handlers[ev]) > 0

\* C1: every registration of a listener is consumed exactly once: while it
\* is neither removed nor invoked the listener is still in the registry, and
\* whatever triggers and exitAfterCleanup/killAfterCleanup calls follow, the
\* listener is invoked once for it and never a second time.
C1_ExactlyOnce ==
    \A l \in Listeners :
        /\ owed[l] \in {0, 1}
        /\ (owed[l] = 1) <=> Registered(l)

\* a second call arrived while both listeners of the first were still pending
C1_Witness ==
    /\ Len(calls) = 2
    /\ calls[1].ran /\ Len(calls[1].detached) = 2
    /\ Cardinality(Pending(calls[1].results)) = 2
    /\ ~calls[2].ran
    /\ \A l \in Listeners : owed[l] = 0

\* C2: no terminal action (process.exit, process.kill) is performed while a
\* listener invoked by cleanup has a Promise that has not settled.
C2_TerminalAfterCleanup ==
    \A i \in 1..Len(calls) : calls[i].phase = "done" => calls[i].unsettled = 0

\* C3: a single killAfterCleanup(s) with listeners registered, no other call
\* or trigger, sends s only once every listener Promise has settled.
C3_KillAfterSettle ==
    (/\ Len(calls) = 1
     /\ calls[1].kind = "kill"
     /\ calls[1].ran
     /\ calls[1].phase = "done") => calls[1].unsettled = 0

\* killAfterCleanup('SIGINT') awaited two listener Promises and then sent SIGINT
C3_Witness ==
    /\ Len(calls) = 1
    /\ calls[1].kind = "kill" /\ calls[1].signal = "SIGINT"
    /\ calls[1].ran /\ calls[1].phase = "done"
    /\ calls[1].awaited = 2
    /\ "SIGINT" \in raised

\* C4: trigger subscriptions are installed on the process if and only if
\* the registry is active.
C4_InterceptIffActive == Intercepting <=> Active

\* C5: once every registered listener has been removed (and no cleanup was
\* ever started), a firing of an intercepted signal runs no handler of this
\* system: it makes no killAfterCleanup call.
C5_NoEffectAfterLastRemove ==
    (removers # {} /\ ~cleanupListeners.defined /\ calls = <<>>) =>
        \A sig \in ListenedSignals :
            Emit(Here, Len(handlers[sig]), sig, 0, "other",
                 [l \in Listeners |-> "void"]).calls = <<>>

\* a cleanup started in registry state S invokes l exactly once
InvokesOnce(S, l) ==
    \A b \in Behaviours :
        LET c == killAfterCleanup(S, "SIGINT", [k \in Listeners |-> b]).calls[1]
        IN c.ran /\ SeqCount(c.detached, l) = 1 /\ Len(c.results) = Len(c.detached)

\* S2, the state after add(l); add(l), is S1, the state after add(l)
SameRegistry(S1, S2, l) == S2 = S1 /\ InvokesOnce(S2, l)

\* C6: in every state, add(l); add(l) leaves the registry as add(l) left it,
\* and a cleanup triggered next invokes l exactly once.
C6_AddTwice ==
    \A l \in Listeners :
        SameRegistry([add(Here, l) EXCEPT !.calls = <<>>],
                     [add(add(Here, l), l) EXCEPT !.calls = <<>>], l)

\* both listeners are registered: an add of either is a second registration
C6_Witness ==
    /\ cleanupListeners.defined
    /\ Len(cleanupListeners.items) = 2
    /\ \A l \in Listeners : owed[l] = 1 /\ add(Here, l) = Here

\* C7: in every state remove(l) returns true iff l is registered (added and
\* neither removed nor consumed by a cleanup since), and a second remove(l)
\* right after returns false.
C7_RemoveResult ==
    \A l \in Listeners :
        LET r == remove(Here, l)
        IN /\ r.ret <=> (owed[l] = 1)
           /\ ~remove(r.S, l).ret

\* one listener was added again after a cleanup consumed both: remove
\* returns true for it and false for the other
C7_Witness ==
    /\ \E i \in 1..Len(calls) : calls[i].ran /\ Len(calls[i].detached) = 2
    /\ \E l \in Listeners :
          /\ remove(Here, l).ret
          /\ \A k \in Listeners \ {l} : k \in removers /\ ~remove(Here, k).ret

\* C8: a cleanup invokes every listener of the set it detached, whatever an
\* earlier listener threw or returned, and no exception leaves the routine.
C8_FailureIsolation ==
    \A i \in 1..Len(calls) :
        /\ calls[i].phase # "failed"
        /\ (calls[i].ran /\ calls[i].phase # "done") =>
               Len(calls[i].results) = Len(calls[i].detached)

\* the first listener threw and the second was still invoked
C8_Witness ==
    \E i \in 1..Len(calls) :
        /\ Len(calls[i].detached) = 2
        /\ calls[i].results[1] = "threw"
        /\ calls[i].results[2] = "pending"

\* C9: a cleanup execution has completed only if every Promise it collected
\* has settled.
C9_AllSettledBeforeComplete ==
    \A i \in 1..Len(calls) :
        calls[i].phase = "cleaned" => Pending(calls[i].results) = {}

\* a cleanup completed after one listener rejected and the other resolved later
C9_Witness ==
    \E i \in 1..Len(calls) :
        /\ calls[i].phase = "cleaned"
        /\ calls[i].results = <<"rejected", "resolved">>

\* C10: every exitAfterCleanup/killAfterCleanup call, made directly or by a
\* trigger, eventually performs its terminal action (unless the process has
\* ended before), whatever the listeners threw or rejected.
C10_TerminalEventually ==
    \A i \in 1..MaxCalls :
        (Len(calls) >= i) ~> (proc # "running" \/ (Len(calls) >= i /\ calls[i].phase = "done"))

\* a call performed its terminal action after both of its listeners failed
C10_Witness ==
    \E i \in 1..Len(calls) :
        /\ calls[i].phase = "done"
        /\ calls[i].ran
        /\ calls[i].errors = 2

\* the one call cs holds is a call of the given kind with the given arguments
IsCall(cs, kind, code, signal) ==
    /\ Len(cs) = 1
    /\ cs[1].kind = kind /\ cs[1].code = code /\ cs[1].signal = signal

\* what each subscribed handler calls, in the current registry state
HandlerCalls ==
    LET S == [Here EXCEPT !.calls = <<>>]
        beh == [l \in Listeners |-> "void"]
    IN /\ \A c \in Codes : IsCall(Emit(S, 1, "beforeExit", c, "other", beh).calls, "exit", c, "none")
       /\ IsCall(Emit(S, 1, "uncaughtException", 0, "other", beh).calls, "exit", 1, "none")
       /\ \A s \in ListenedSignals : IsCall(Emit(S, 1, s, 0, "other", beh).calls, "kill", 0, s)
       /\ IsCall(Emit(S, 1, "message", 0, "shutdown", beh).calls, "kill", 0, "SIGTERM")
       /\ Emit(S, 1, "message", 0, "other", beh) = S

\* a call that reaches its terminal action performs the one it was made for
TerminalOfCall ==
    \A i \in 1..Len(calls) :
        (calls[i].phase # "done" /\ calls'[i].phase = "done") =>
            /\ calls'[i].kind = calls[i].kind
            /\ calls'[i].code = calls[i].code
            /\ calls'[i].signal = calls[i].signal
            /\ IF calls[i].kind = "exit"
               THEN proc' = "exited" /\ raised' = raised
               ELSE proc' = proc /\ raised' = raised \cup {calls[i].signal}

\* C11: the trigger fixes the terminal action: 'beforeExit' with code c ends
\* in process.exit(c), 'uncaughtException' in process.exit(1), a subscribed
\* signal s in process.kill(pid, s), the message 'shutdown' in
\* process.kill(pid, 'SIGTERM'); any other message starts no cleanup and
\* performs no terminal action.
C11_TerminalByTrigger == []HandlerCalls /\ [][TerminalOfCall]_vars

\* a 'shutdown' message and an uncaught exception each ended in their
\* terminal action: SIGTERM was sent, then the process exited
C11_Witness ==
    /\ Len(calls) = 2
    /\ calls[1].phase = "done" /\ calls[1].kind = "kill" /\ calls[1].signal = "SIGTERM"
    /\ calls[2].phase = "done" /\ calls[2].kind = "exit" /\ calls[2].code = 1
    /\ proc = "exited"

\* exitAfterCleanup(c), called while the registry is uninitialized, only
\* records a call that is ready for process.exit(c)
ExitWhenUninitialized ==
    ~cleanupListeners.defined =>
        \A c \in Codes, beh \in BehavioursNow :
            LET S == exitAfterCleanup(Here, c, beh)
                call == S.calls[Len(S.calls)]
            IN /\ S.cl = cleanupListeners /\ S.tbl = handlers /\ S.owed = owed
               /\ Len(S.calls) = Len(calls) + 1
               /\ call.kind = "exit" /\ call.code = c
               /\ ~call.ran /\ call.results = <<>>
               /\ Resumable(call)

\* a step that makes calls while the registry is uninitialized invokes no
\* listener and leaves the registry and the subscriptions as they were
NoCleanupWhenUninitialized ==
    (~cleanupListeners.defined /\ Len(calls') > Len(calls)) =>
        /\ UNCHANGED <<cleanupListeners, handlers, owed, removers>>
        /\ \A i \in (Len(calls) + 1)..Len(calls') : ~calls'[i].ran /\ calls'[i].results = <<>>

\* C12: exitAfterCleanup(c) called while the registry is uninitialized ends
\* the process with exit code c, invokes no listener, uninstalls nothing and
\* leaves the registry state as it was.
C12_ExitUninitialized == []ExitWhenUninitialized /\ [][NoCleanupWhenUninitialized]_vars

\* exitAfterCleanup was called before any listener was ever added, and the
\* process exited
C12_Witness ==
    /\ removers = {}
    /\ Len(calls) = 1
    /\ calls[1].kind = "exit" /\ ~calls[1].ran /\ calls[1].phase = "done"
    /\ proc = "exited"
    /\ ~cleanupListeners.defined

\* some cleanup that invoked listeners has sent signal s to this process
Reraised(s) ==
    /\ s \in raised
    /\ \E i \in 1..Len(calls) :
          calls[i].kind = "kill" /\ calls[i].signal = s /\ calls[i].ran /\ calls[i].phase = "done"

\* C13: a signal that a cleanup sent to this process after it ran the
\* listeners is not intercepted again: when it is delivered no handler of
\* this system is subscribed for it, so the default disposition applies.
C13_ReraiseNotIntercepted ==
    \A s \in ListenedSignals :
        Reraised(s) =>
            /\ Len(handlers[s]) = 0
            /\ Emit(Here, Len(handlers[s]), s, 0, "other", [l \in Listeners |-> "void"]) = Here

\* C14: at the moment cleanup invokes a listener, no trigger subscription of
\* this system is installed and the registry is uninitialized. (The state a
\* listener sees while it runs is the state the step that invokes it leaves:
\* nothing after line 71 changes the registry or the subscriptions.)
C14_IsolatedWhileInvoking ==
    [][(\E i \in (Len(calls) + 1)..Len(calls') : calls'[i].ran /\ Len(calls'[i].results) > 0) =>
           /\ ~cleanupListeners'.defined
           /\ \A ev \in Events : Len(handlers'[ev]) = 0]_vars

\* C15: every trigger event has at most one handler of this registry
\* subscribed, and none once the registry is uninitialized again (the last
\* listener was removed, or cleanup has begun), so one firing of a trigger
\* invokes the handler at most once.
C15_OneHandlerPerEvent ==
    \A ev \in Events :
        /\ Len(handlers[ev]) <= (IF cleanupListeners.defined THEN 1 ELSE 0)
        /\ \A m \in Messages :
              Len(Emit(Here, Len(handlers[ev]), ev, 0, m, [l \in Listeners |-> "void"]).calls)
                  <= Len(calls) + 1

\* C18: the registry is either uninitialized or holds a non-empty set of
\* distinct listeners, never a defined empty set; removing the last
\* listener makes it uninitialized again.
C18_NeverEmpty ==
    /\ IF cleanupListeners.defined
       THEN /\ Len(cleanupListeners.items) > 0
            /\ \A l \in Listeners : SeqCount(cleanupListeners.items, l) <= 1
       ELSE cleanupListeners = Undefined
    /\ \A l \in Listeners :
          cleanupListeners.items = <<l>> => remove(Here, l).S.cl = Undefined

\* both listeners were added and then removed, and no cleanup ever ran: the
\* registry is uninitialized again
C18_Witness ==
    /\ removers = Listeners
    /\ calls = <<>>
    /\ ~cleanupListeners.defined
    /\ Len(handlers["beforeExit"]) = 1

\* C19: a call of the remover add(l) returned does what remove(l) does in
\* the same state: it returns true iff l is registered, afterwards l is not
\* registered and every other listener is registered as before (also when
\* l was consumed by a cleanup and added again since the remover was
\* returned), and a second call returns false and changes nothing.
C19_RemoverIsRemove ==
    \A l \in removers :
        LET r == Remover(Here, l)
            again == Remover(r.S, l)
        IN /\ r.ret <=> (owed[l] = 1)
           /\ ~(r.S.cl.defined /\ SeqHas(r.S.cl.items, l))
           /\ \A k \in Listeners \ {l} : SeqHas(r.S.cl.items, k) <=> Registered(k)
           /\ ~again.ret /\ again.S = r.S

\* l was added, detached by a cleanup that is still running, and added
\* again: the remover of the first add removes it
C19_Witness ==
    \E l \in removers, i \in 1..Len(calls) :
        /\ calls[i].ran /\ SeqHas(calls[i].detached, l)
        /\ Registered(l)
        /\ Remover(Here, l).ret
        /\ ~Remover(Here, l).S.cl.defined

\* the calls made by the current step that invoked listeners
Started == {i \in (Len(calls) + 1)..Len(calls') : calls'[i].ran}

\* add puts a new listener after those registered and leaves a registered
\* one where it is
AddKeepsOrder ==
    \A l \in Listeners :
        add(Here, l).cl.items =
            IF Registered(l) THEN cleanupListeners.items ELSE Append(cleanupListeners.items, l)

\* a cleanup invokes listeners in the order the registry held them
InvokedInOrder ==
    \A i \in Started :
        calls'[i].invoked = SubSeq(cleanupListeners.items, 1, Len(calls'[i].invoked))

\* C17: cleanup invokes the listeners in the order of their registration,
\* and adding a registered listener again does not change its position.
C17_RegistrationOrder == []AddKeepsOrder /\ [][InvokedInOrder]_vars

\* listener 2 was registered before listener 1 and a cleanup invoked them in
\* that order; both are registered again in that order, and another add(2)
\* changes nothing
C17_Witness ==
    /\ \E i \in 1..Len(calls) : calls[i].invoked = <<2, 1>>
    /\ cleanupListeners.items = <<2, 1>>
    /\ add(Here, 2) = Here

\* C20: the step in which a cleanup detaches the set starts every listener
\* of it, before the routine first suspends; a listener that returned a
\* Promise is not awaited before the next one is started.
C20_AllStartedInOneStep ==
    [][\A i \in Started :
          /\ Len(calls'[i].invoked) = Len(cleanupListeners.items)
          /\ Len(calls'[i].results) = Len(cleanupListeners.items)
          /\ \A j \in 1..Len(calls'[i].results) :
                calls'[i].results[j] \in {"void", "threw", "pending"}
          /\ calls'[i].phase = "settling"]_vars

\* both listeners returned a Promise: the second was started while the
\* Promise of the first was still pending
C20_Witness ==
    /\ Len(calls) = 1
    /\ calls[1].phase = "settling"
    /\ Len(calls[1].invoked) = 2
    /\ calls[1].results = <<"pending", "pending">>

\* the listeners a cleanup started by the current step invokes are those the
\* registry held when the step began, each once
InvokesDetached ==
    \A i \in Started :
        /\ calls'[i].detached = cleanupListeners.items
        /\ calls'[i].invoked = calls'[i].detached
        /\ Len(calls'[i].results) = Len(calls'[i].detached)

\* no step, an add or a remove in particular, changes which listeners a
\* cleanup that has started invokes
ExecutionsStayFixed ==
    \A i \in 1..Len(calls) :
        (calls[i].phase # "done" /\ calls'[i].phase # "done") =>
            /\ calls'[i].detached = calls[i].detached
            /\ calls'[i].invoked = calls[i].invoked

\* C16 as stated: a cleanup invokes exactly the listeners the registry held
\* when it started, whatever add and remove calls follow, those made by its
\* listeners included; a remove of a listener it detached and has not yet
\* invoked returns false.
C16_DetachedSetIsFixed ==
    [][/\ InvokesDetached
       /\ ExecutionsStayFixed
       /\ \A i \in Started : \A e \in calls'[i].removals : ~e.ret]_vars

\* C16, amended: a cleanup invokes exactly the listeners the registry held
\* when it started, whatever add and remove calls follow, those made by its
\* listeners included; a remove of a listener it detached and has not yet
\* invoked returns false unless that listener was added again since the
\* cleanup started.
C16_DetachedSetIsFixedUnlessReadded ==
    [][/\ InvokesDetached
       /\ ExecutionsStayFixed
       /\ \A i \in Started : \A e \in calls'[i].removals : ~e.readded => ~e.ret]_vars

\* the first listener removed the second while it ran and then added a
\* listener: the remove returned false, the second listener was invoked all
\* the same, and the registry holds only the listener added
C16_Witness ==
    \E i \in 1..Len(calls) :
        /\ Len(calls[i].detached) = 2
        /\ calls[i].invoked = calls[i].detached
        /\ calls[i].removals = {[readded |-> FALSE, ret |-> FALSE]}
        /\ \E l \in Listeners : Registered(l) /\ Len(cleanupListeners.items) = 1

====
